---- MODULE Spec2Model ----
(***************************************************************************)
(* Model of the Nostr addressing assistant extension: the popup's          *)
(* evaluation of one page visit (hooks/useNostrAddressing.ts), the binding *)
(* store kept in localStorage (services/storage.ts), the validators        *)
(* (utils/validation.ts), the record fetch (services/nostr.ts) and the     *)
(* two user overrides of the NostrAddressingInfo component.                *)
(*                                                                         *)
(* Strings whose characters the code inspects (keys, relay URLs) are       *)
(* sequences of one-character strings; strings the code only compares      *)
(* (domains, protocols, tag names) are TLA+ strings.  A nullable value is  *)
(* a sequence of length 0 (null / undefined) or 1 (the value).             *)
(***************************************************************************)
EXTENDS Naturals, Sequences, FiniteSets

VARIABLES
  store,            \* localStorage['nostrDomainInfo']: entries in insertion order
  storageFault,     \* "none", "corrupt" (JSON.parse throws) or "quota" (setItem throws)
  pc,               \* position of the popup's evaluation
  state,            \* the hook's NostrAddressingState
  keptOldPubkey,    \* component state
  trustedNewPubkey, \* component state
  currentDomain,    \* closure arguments of the running evaluation
  protocol,
  previousInfo,
  extractedPubkey,
  extractedParsedRelays,
  pubkeyToCheck,    \* arguments of the pending checkNip37Events call
  relaysToUse,
  badgeText,        \* chrome.action badge
  inbox,            \* domainMismatch messages sent and not yet handled: their domains
  domainsWithWarnings, \* the background script's set
  evals,            \* number of evaluations started
  startStore,       \* history: the store when the evaluation started
  fetched,          \* history: <<key, relays>> of every fetchLatestNip37Event call
  relayRecord,      \* history: what the relay-update fetch returned
  statusRecord,     \* history: what the status fetch returned
  statusStream,     \* history: how the stream of the status fetch went
  fetchCall,        \* one fetchLatestNip37Event call, message by message
  storeCall,        \* the last saveDomainInfo call made on its own
  validateCall,     \* the last call of a validator made on its own
  tabBadge,         \* the tab that loaded last and the badge text set for it
  contentPort       \* the content script's sendMessage call and its outcome

vars == <<store, storageFault, pc, state, keptOldPubkey,
          trustedNewPubkey, currentDomain, protocol, previousInfo,
          extractedPubkey, extractedParsedRelays, pubkeyToCheck, relaysToUse,
          badgeText, inbox, domainsWithWarnings, evals, startStore, fetched,
          relayRecord, statusRecord, statusStream, fetchCall, storeCall,
          validateCall, tabBadge, contentPort>>

\* the popup, the store and the background set: everything but the records
\* of the functions and scripts followed on their own
popupVars == <<store, storageFault, pc, state, keptOldPubkey,
               trustedNewPubkey, currentDomain, protocol, previousInfo,
               extractedPubkey, extractedParsedRelays, pubkeyToCheck,
               relaysToUse, badgeText, inbox, domainsWithWarnings, evals,
               startStore, fetched, relayRecord, statusRecord, statusStream>>

(***************************************************************************)
(* Bounds of the model.                                                    *)
(***************************************************************************)
MaxEvals == 2
MaxMsgs == 2

(***************************************************************************)
(* Nullable values.                                                        *)
(***************************************************************************)
Null == <<>>
Some(v) == <<v>>
IsNull(o) == Len(o) = 0
Val(o) == o[1]

(***************************************************************************)
(* utils/validation.ts                                                     *)
(***************************************************************************)
HexLen == 64

HexChars == {"0", "1", "2", "3", "4", "5", "6", "7", "8", "9",
             "a", "b", "c", "d", "e", "f",
             "A", "B", "C", "D", "E", "F"}

\* The test as the pattern without its end anchor would do it.
isValidHexPubkeyPrefix(pubkey) ==
  /\ Len(pubkey) >= HexLen
  /\ \A i \in 1..HexLen : pubkey[i] \in HexChars

\* /^[0-9a-f]{64}$/i
isValidHexPubkey(pubkey) ==
  /\ Len(pubkey) = HexLen
  /\ \A i \in 1..Len(pubkey) : pubkey[i] \in HexChars

Whitespace == {" ", "\t", "\n"}

RECURSIVE TrimStart(_)
TrimStart(s) ==
  IF Len(s) > 0 /\ Head(s) \in Whitespace THEN TrimStart(Tail(s)) ELSE s

RECURSIVE TrimEnd(_)
TrimEnd(s) ==
  IF Len(s) > 0 /\ s[Len(s)] \in Whitespace
  THEN TrimEnd(SubSeq(s, 1, Len(s) - 1))
  ELSE s

\* String.prototype.trim
Trim(s) == TrimEnd(TrimStart(s))

\* String.prototype.split(','): the pieces between the commas, empty ones kept
RECURSIVE SplitComma(_, _)
SplitComma(s, piece) ==
  IF Len(s) = 0 THEN <<piece>>
  ELSE IF Head(s) = "," THEN <<piece>> \o SplitComma(Tail(s), <<>>)
  ELSE SplitComma(Tail(s), Append(piece, Head(s)))

ToLower(c) == IF c = "W" THEN "w" ELSE IF c = "S" THEN "s" ELSE c

\* index of the first ':' of s, 0 when there is none
RECURSIVE IndexOfColon(_, _)
IndexOfColon(s, i) ==
  IF i > Len(s) THEN 0
  ELSE IF s[i] = ":" THEN i
  ELSE IndexOfColon(s, i + 1)

RECURSIVE SkipSlashes(_)
SkipSlashes(s) ==
  IF Len(s) > 0 /\ Head(s) = "/" THEN SkipSlashes(Tail(s)) ELSE s

RECURSIVE HostOf(_)
HostOf(s) ==
  IF Len(s) = 0 \/ Head(s) = "/" THEN <<>>
  ELSE <<Head(s)>> \o HostOf(Tail(s))

\* new URL(url) succeeds and its protocol is 'wss:' or 'ws:'.  The URL parser
\* lower-cases the scheme, skips the slashes that follow a special scheme and
\* fails on an empty host or a host holding a space.
isValidRelayUrl(url) ==
  LET c == IndexOfColon(url, 1)
      scheme == [i \in 1..(c - 1) |-> ToLower(url[i])]
      host == HostOf(SkipSlashes(SubSeq(url, c + 1, Len(url))))
  IN /\ c > 1
     /\ scheme \in {<<"w", "s", "s">>, <<"w", "s">>}
     /\ Len(host) > 0
     /\ \A i \in 1..Len(host) : host[i] # " "

RECURSIVE Distinct(_, _)
Distinct(relays, seen) ==
  IF Len(relays) = 0 THEN <<>>
  ELSE IF Head(relays) \in seen THEN Distinct(Tail(relays), seen)
  ELSE <<Head(relays)>> \o Distinct(Tail(relays), seen \cup {Head(relays)})

\* The parser as a version that drops repeated relays would be.
parseRelaysDedup(relayString) ==
  IF IsNull(relayString) \/ Len(Val(relayString)) = 0 THEN <<>>
  ELSE LET pieces == SplitComma(Val(relayString), <<>>)
           trimmed == [i \in 1..Len(pieces) |-> Trim(pieces[i])]
       IN Distinct(SelectSeq(trimmed, LAMBDA relay : Len(relay) > 0 /\ isValidRelayUrl(relay)),
                   {})

\* parseRelays: null or '' gives []; else split, trim, keep the non-empty
\* valid relay URLs in order
parseRelays(relayString) ==
  IF IsNull(relayString) \/ Len(Val(relayString)) = 0 THEN <<>>
  ELSE LET pieces == SplitComma(Val(relayString), <<>>)
           trimmed == [i \in 1..Len(pieces) |-> Trim(pieces[i])]
       IN SelectSeq(trimmed, LAMBDA relay : Len(relay) > 0 /\ isValidRelayUrl(relay))

(***************************************************************************)
(* services/storage.ts.  The stored JSON object is a sequence of entries   *)
(* [domain, info] in insertion order (the order Object.entries gives).     *)
(***************************************************************************)
RECURSIVE IndexOfDomain(_, _, _)
IndexOfDomain(st, domain, i) ==
  IF i > Len(st) THEN 0
  ELSE IF st[i].domain = domain THEN i
  ELSE IndexOfDomain(st, domain, i + 1)

\* The assignment as a version that starts from an empty object would be.
SetEntryAlone(st, domain, pubkey, relays) ==
  <<[domain |-> domain, info |-> [pubkey |-> pubkey, relays |-> relays]]>>

\* savedInfo[domain] = { pubkey, relays }
SetEntry(st, domain, pubkey, relays) ==
  LET i == IndexOfDomain(st, domain, 1)
      e == [domain |-> domain, info |-> [pubkey |-> pubkey, relays |-> relays]]
  IN IF i = 0 THEN Append(st, e) ELSE [st EXCEPT ![i] = e]

\* saveDomainInfo returns true and writes, or catches the error, writes
\* nothing and returns false
saveDomainInfoOk(fault) == fault = "none"

saveDomainInfo(st, fault, domain, pubkey, relays) ==
  IF saveDomainInfoOk(fault) THEN SetEntry(st, domain, pubkey, relays) ELSE st

\* savedInfo[domain] || null; null when reading throws
getSavedInfoForDomain(st, fault, domain) ==
  LET i == IndexOfDomain(st, domain, 1)
  IN IF fault = "corrupt" \/ i = 0 THEN Null ELSE Some(st[i].info)

\* The scan as a version that stops at the first match would be.
getDomainsForPubkeyFirst(st, fault, pubkey) ==
  LET matches == SelectSeq(st, LAMBDA e : e.info.pubkey = pubkey)
  IN IF fault = "corrupt" \/ Len(matches) = 0 THEN <<>> ELSE <<matches[1]>>

\* the entries whose info.pubkey === pubkey, in stored order; [] when reading throws
getDomainsForPubkey(st, fault, pubkey) ==
  IF fault = "corrupt" THEN <<>>
  ELSE SelectSeq(st, LAMBDA e : e.info.pubkey = pubkey)

(***************************************************************************)
(* services/nostr.ts                                                       *)
(***************************************************************************)
\* events.find(e => e.id === event.id) === undefined ? push : skip
RECURSIVE CollectEvents(_, _)
CollectEvents(msgs, events) ==
  IF Len(msgs) = 0 THEN events
  ELSE CollectEvents(Tail(msgs),
         IF \E i \in 1..Len(events) : events[i].id = Head(msgs).id
         THEN events
         ELSE Append(events, Head(msgs)))

\* The reduce as a version that lets a later event of the same time win would be.
RECURSIVE ReduceLatestLastWins(_, _)
ReduceLatestLastWins(prev, rest) ==
  IF Len(rest) = 0 THEN prev
  ELSE ReduceLatestLastWins(
         IF Head(rest).created_at >= prev.created_at THEN Head(rest) ELSE prev,
         Tail(rest))

\* events.reduce((prev, next) => next.created_at > prev.created_at ? next : prev)
RECURSIVE ReduceLatest(_, _)
ReduceLatest(prev, rest) ==
  IF Len(rest) = 0 THEN prev
  ELSE ReduceLatest(IF Head(rest).created_at > prev.created_at THEN Head(rest) ELSE prev,
                    Tail(rest))

\* The ends of a stream whose relays never answer and never fail.
StreamEndsNever == {}

\* what ends the for-await loop: the EOSE message (break) or an error thrown
\* by the pool, which the catch block logs
StreamEnds == {"eose", "error"}

\* The function after the loop as a version without the check for an empty
\* array, whose reduce is given an initial value, would be.
latestEventUnguarded(events) ==
  Some(ReduceLatest([id |-> "", pubkey |-> <<>>, created_at |-> 0, tags |-> <<>>],
                    events))

\* the function after the loop: undefined for no events, else the reduce
latestEvent(events) ==
  IF Len(events) = 0 THEN Null
  ELSE Some(ReduceLatest(Head(events), Tail(events)))

\* The fetch as a version that gives up on a thrown error would be.
fetchLatestNip37EventErrorIsNone(relays, msgs, ending) ==
  IF Len(relays) = 0 \/ ending = "error" THEN Null
  ELSE latestEvent(CollectEvents(msgs, <<>>))

\* fetchLatestNip37Event(pubkey, relays), msgs being the EVENT messages the
\* pool delivers before the loop ends.  Whichever way the loop ends, the
\* function goes on with the events pushed so far.
fetchLatestNip37Event(relays, msgs, ending) ==
  IF Len(relays) = 0 THEN Null
  ELSE latestEvent(CollectEvents(msgs, <<>>))

(***************************************************************************)
(* The pages, keys, relays and records of the model.                       *)
(***************************************************************************)
Domains == {"a.example", "b.example"}
Protocols == {"https", "http"}

K1 == [i \in 1..HexLen |-> "a"]
K2 == [i \in 1..HexLen |-> IF i = 1 THEN "B" ELSE "0"]
KNonHex == [i \in 1..HexLen |-> IF i = HexLen THEN "g" ELSE "a"]
KShort == [i \in 1..(HexLen - 1) |-> "a"]

\* the content attribute of the page's meta tag: absent, empty, or a string
ContentAttrs == {Null, Some(<<>>), Some(K1), Some(K2), Some(KNonHex), Some(KShort)}

RelayA == <<"w", "s", "s", ":", "/", "/", "a">>
RelayB == <<"w", "s", ":", "/", "/", "b">>

\* relay lists as the functions receive them
RelayLists == {<<>>, <<RelayA>>, <<RelayA, RelayB>>}

\* the relays (or rel) attribute of the meta tag
RelayAttrs == {Null,
               Some(RelayA),
               Some(<<"w", "s", "s", ":", "/", "/", "a", ",", " ", "w", "s", ":", "/", "/", "b", " ", ",", "b", "a", "d">>),
               Some(<<"w", "s", ":", "/", "/", "b", ",", "w", "s", "s", ":", "/", "/", "a">>)}

\* what executeScript resolves with: null (no meta tag) or { pubkey, relays }
ScriptResults ==
  {Null} \cup {Some([pubkey |-> k, relays |-> r]) : k \in ContentAttrs, r \in RelayAttrs}

TagsAB == << <<"clearnet", "a.example", "https">>,
             <<"clearnet", "b.example", "https">>,
             <<"clearnet", "b.example", "http">> >>
TagsOther == << <<"clearnet", "a.example", "http">>,
                <<"onion", "b.example", "https">>,
                <<"clearnet", "b.example">>,
                <<"clearnet", "", "https">> >>

\* the kind 11111 events an author may have published
EventsOf(k) ==
  {[id |-> "e1", pubkey |-> k, created_at |-> 1, tags |-> TagsAB],
   [id |-> "e2", pubkey |-> k, created_at |-> 2, tags |-> TagsOther]}

Authors == {K1, K2}

\* The EVENT messages the pool may deliver for a request before the stream
\* ends or fails: any events of the author, in any order, an event possibly
\* more than once (one copy per relay).  The author may publish, replace or
\* delete its record between two requests, so each request draws afresh.
SeqsUpTo(S, n) == UNION {[1..m -> S] : m \in 0..n}

Deliveries(k) ==
  IF k \in Authors THEN SeqsUpTo(EventsOf(k), MaxMsgs) ELSE {<<>>}

\* how a stream went: whether it ended with an error, and whether an event
\* had been pushed by then (no stream is opened for an empty relay list)
NoStream == [error |-> FALSE, received |-> FALSE]

StreamOf(relays, msgs, ending) ==
  IF Len(relays) = 0 THEN NoStream
  ELSE [error |-> ending = "error", received |-> Len(msgs) > 0]

\* no function has been called on its own
NoCall == [fn |-> "none"]

\* no tab has finished loading
NoTab == [domain |-> "", text |-> ""]

\* no page has run the content script
NoPort == [status |-> "idle", message |-> Null, response |-> Null]

\* no fetchLatestNip37Event call is followed message by message
IdleCall ==
  [pc |-> "idle", relays |-> <<>>, delivered |-> <<>>, events |-> <<>>,
   ending |-> "", latestEvent |-> Null]

NoPubkeyFound == <<"N", "o", " ", "N", "o", "s", "t", "r", " ", "p", "u", "b", "k", "e", "y", " ", "f", "o", "u", "n", "d">>
ErrorAccessing == <<"E", "r", "r", "o", "r", " ", "a", "c", "c", "e", "s", "s", "i", "n", "g", " ", "p", "a", "g", "e", " ", "c", "o", "n", "t", "e", "n", "t">>
SavedSuffix == <<" ", "(", "s", "a", "v", "e", "d", ")">>

(***************************************************************************)
(* hooks/useNostrAddressing.ts                                             *)
(***************************************************************************)
\* useState's initial value (color, derived from the domain for display, is
\* not modelled)
InitialState ==
  [domain |-> "", pubkey |-> <<>>, relays |-> <<>>, isValidPubkey |-> FALSE,
   savedInfo |-> Null, pubkeyMismatch |-> FALSE, isNewDomain |-> FALSE,
   relaysUpdated |-> FALSE, nip37DomainMismatch |-> FALSE,
   noNip37EventFound |-> FALSE, nip37Domains |-> <<>>,
   extractedPubkey |-> Null, extractedRelays |-> Null]

\* A fresh installation: nothing stored, localStorage working, popup closed.
\* No action of Spec changes storageFault: Spec runs with a working
\* localStorage, SpecFault with one that may fail.
InitPopup ==
  /\ store = <<>>
  /\ storageFault = "none"
  /\ pc = "closed"
  /\ state = InitialState
  /\ keptOldPubkey = FALSE
  /\ trustedNewPubkey = FALSE
  /\ currentDomain = ""
  /\ protocol = ""
  /\ previousInfo = Null
  /\ extractedPubkey = Null
  /\ extractedParsedRelays = <<>>
  /\ pubkeyToCheck = <<>>
  /\ relaysToUse = <<>>
  /\ badgeText = ""
  /\ inbox = {}
  /\ domainsWithWarnings = {}
  /\ evals = 0
  /\ startStore = <<>>
  /\ fetched = <<>>
  /\ relayRecord = <<>>
  /\ statusRecord = <<>>
  /\ statusStream = NoStream
  /\ tabBadge = NoTab
  /\ contentPort = NoPort

Init ==
  /\ InitPopup
  /\ fetchCall = IdleCall
  /\ storeCall = NoCall
  /\ validateCall = NoCall

\* tag[0] === 'clearnet' && !!tag[1] && !!tag[2]
IsClearnetTag(tag) ==
  /\ Len(tag) >= 3
  /\ tag[1] = "clearnet"
  /\ tag[2] # ""
  /\ tag[3] # ""

ClearnetTags(event) == SelectSeq(event.tags, IsClearnetTag)

\* The test as a version that looks at the domain only would be.
DomainFoundAnyProtocol(event, domain, proto) ==
  LET clearnetTags == ClearnetTags(event)
  IN \E i \in 1..Len(clearnetTags) : clearnetTags[i][2] = domain

\* clearnetTags.some(tag => tag[1] === currentDomain && tag[2] === protocol)
DomainFound(event, domain, proto) ==
  LET clearnetTags == ClearnetTags(event)
  IN \E i \in 1..Len(clearnetTags) :
       clearnetTags[i][2] = domain /\ clearnetTags[i][3] = proto

\* The list as a version that keeps the entries of the page's protocol would be.
Nip37DomainsOfProtocol(event) ==
  LET tags == SelectSeq(ClearnetTags(event), LAMBDA tag : tag[3] = protocol)
  IN [i \in 1..Len(tags) |-> [domain |-> tags[i][2], protocol |-> tags[i][3]]]

\* clearnetTags.map(tag => ({ domain: tag[1], protocol: tag[2] }))
Nip37DomainsOf(event) ==
  LET clearnetTags == ClearnetTags(event)
  IN [i \in 1..Len(clearnetTags) |->
        [domain |-> clearnetTags[i][2], protocol |-> clearnetTags[i][3]]]

\* the popup opens on a tab: a new hook and component instance, then
\* initializeNostrAddressing up to the executeScript call
OpenPopup ==
  /\ evals < MaxEvals
  /\ \E d \in Domains, p \in Protocols :
       LET info == getSavedInfoForDomain(store, storageFault, d)
       IN /\ currentDomain' = d
          /\ protocol' = p
          /\ previousInfo' = info
          /\ state' = [InitialState EXCEPT !.domain = d, !.savedInfo = info]
  /\ pc' = "extract"
  /\ keptOldPubkey' = FALSE
  /\ trustedNewPubkey' = FALSE
  /\ extractedPubkey' = Null
  /\ extractedParsedRelays' = <<>>
  /\ pubkeyToCheck' = <<>>
  /\ relaysToUse' = <<>>
  /\ evals' = evals + 1
  /\ startStore' = store
  /\ fetched' = <<>>
  /\ relayRecord' = <<>>
  /\ statusRecord' = <<>>
  /\ statusStream' = NoStream
  /\ UNCHANGED <<inbox, domainsWithWarnings,
                 store, storageFault, badgeText, fetchCall, storeCall,
                 validateCall, tabBadge,
                 contentPort>>

\* fallbackToSavedPubkey, up to the fetch inside checkNip37Events
fallbackToSavedPubkey ==
  /\ state' = [state EXCEPT !.pubkey = Val(previousInfo).pubkey \o SavedSuffix,
                            !.relays = Val(previousInfo).relays,
                            !.isValidPubkey = TRUE]
  /\ pubkeyToCheck' = Val(previousInfo).pubkey
  /\ relaysToUse' = Val(previousInfo).relays
  /\ pc' = "statusFetch"

handleMissingPubkey ==
  IF ~IsNull(previousInfo)
  THEN fallbackToSavedPubkey
  ELSE /\ state' = [state EXCEPT !.pubkey = NoPubkeyFound, !.isValidPubkey = FALSE]
       /\ pc' = "done"
       /\ UNCHANGED <<pubkeyToCheck, relaysToUse>>

\* The comparison as a version that compares the two lists as sets would be.
relaysChangedAsSet(extractedRelays, savedRelays) ==
  {extractedRelays[i] : i \in 1..Len(extractedRelays)} #
    {savedRelays[i] : i \in 1..Len(savedRelays)}

\* The comparison as a version that always reports a change would be.
relaysChangedAlways(extractedRelays, savedRelays) == TRUE

\* JSON.stringify(extractedParsedRelays) !== JSON.stringify(previousInfo.relays)
relaysChanged(extractedRelays, savedRelays) == extractedRelays # savedRelays

\* The branch as a version that shows and checks the extracted key would be.
pubkeyMismatchBranchExtracted(pubkey, parsedRelays) ==
  /\ state' = [state EXCEPT !.pubkey = pubkey,
                            !.isValidPubkey = TRUE,
                            !.relays = parsedRelays,
                            !.pubkeyMismatch = TRUE,
                            !.extractedPubkey = Some(pubkey),
                            !.extractedRelays = Some(parsedRelays)]
  /\ pubkeyToCheck' = pubkey
  /\ relaysToUse' = parsedRelays
  /\ pc' = "statusFetch"

\* handleExistingDomain when previousInfo.pubkey !== extractedPubkey: the saved
\* key is shown and checked, the extracted one is kept aside
pubkeyMismatchBranch(pubkey, parsedRelays) ==
  /\ state' = [state EXCEPT !.pubkey = Val(previousInfo).pubkey,
                            !.isValidPubkey = TRUE,
                            !.relays = Val(previousInfo).relays,
                            !.pubkeyMismatch = TRUE,
                            !.extractedPubkey = Some(pubkey),
                            !.extractedRelays = Some(parsedRelays)]
  /\ pubkeyToCheck' = Val(previousInfo).pubkey
  /\ relaysToUse' = Val(previousInfo).relays
  /\ pc' = "statusFetch"

\* handleExistingDomain, up to its first fetch
handleExistingDomain(pubkey, parsedRelays, isValid) ==
  IF Val(previousInfo).pubkey # pubkey
  THEN pubkeyMismatchBranch(pubkey, parsedRelays)
  ELSE /\ state' = [state EXCEPT !.pubkey = pubkey,
                                 !.isValidPubkey = isValid,
                                 !.relays = parsedRelays,
                                 !.pubkeyMismatch = FALSE]
       /\ IF relaysChanged(parsedRelays, Val(previousInfo).relays)
          THEN /\ pc' = "relayFetch"
               /\ UNCHANGED <<pubkeyToCheck, relaysToUse>>
          ELSE /\ pubkeyToCheck' = Val(previousInfo).pubkey
               /\ relaysToUse' = Val(previousInfo).relays
               /\ pc' = "statusFetch"

\* The guard as a version that checks every first-seen key would be.
newDomainIsCheckedAlways(isValid) == TRUE

\* if (isValid) before the checkNip37Events call of a first-seen domain
newDomainIsChecked(isValid) == isValid

\* handleNewDomain, up to the fetch inside checkNip37Events
handleNewDomain(pubkey, parsedRelays, isValid) ==
  LET savedInfo == getSavedInfoForDomain(store, storageFault, currentDomain)
      existingDomains == getDomainsForPubkey(store, storageFault, pubkey)
  IN IF ~IsNull(savedInfo)
     THEN LET hasPubkeyMismatch == Val(savedInfo).pubkey # pubkey
          IN /\ state' = [state EXCEPT
                            !.pubkey = Val(savedInfo).pubkey,
                            !.isValidPubkey = TRUE,
                            !.relays = Val(savedInfo).relays,
                            !.isNewDomain = TRUE,
                            !.pubkeyMismatch = hasPubkeyMismatch,
                            !.extractedPubkey =
                               IF hasPubkeyMismatch THEN Some(pubkey) ELSE Null,
                            !.extractedRelays =
                               IF hasPubkeyMismatch THEN Some(parsedRelays) ELSE Null]
             /\ pubkeyToCheck' = Val(savedInfo).pubkey
             /\ relaysToUse' = Val(savedInfo).relays
             /\ pc' = "statusFetch"
     ELSE IF Len(existingDomains) > 0
     THEN LET firstDomain == existingDomains[1]
          IN /\ state' = [state EXCEPT !.pubkey = firstDomain.info.pubkey,
                                       !.isValidPubkey = TRUE,
                                       !.relays = firstDomain.info.relays,
                                       !.isNewDomain = TRUE,
                                       !.pubkeyMismatch = TRUE,
                                       !.extractedPubkey = Some(pubkey),
                                       !.extractedRelays = Some(parsedRelays),
                                       !.savedInfo = Some(firstDomain.info)]
             /\ pubkeyToCheck' = firstDomain.info.pubkey
             /\ relaysToUse' = firstDomain.info.relays
             /\ pc' = "statusFetch"
     ELSE /\ state' = [state EXCEPT !.pubkey = pubkey,
                                    !.isValidPubkey = isValid,
                                    !.relays = parsedRelays,
                                    !.isNewDomain = TRUE,
                                    !.pubkeyMismatch = FALSE]
          /\ IF newDomainIsChecked(isValid)
             THEN /\ pubkeyToCheck' = pubkey
                  /\ relaysToUse' = parsedRelays
                  /\ pc' = "statusFetch"
             ELSE /\ pc' = "done"
                  /\ UNCHANGED <<pubkeyToCheck, relaysToUse>>

\* executeScript resolves: handleScriptResults.  isValidHexPubkey and parseRelays
\* do not throw and the two handlers are not awaited, so the catch block
\* (handleValidationError) is never entered.
handleScriptResults ==
  /\ pc = "extract"
  /\ \E results \in ScriptResults :
       IF IsNull(results) \/ IsNull(Val(results).pubkey)
          \/ Len(Val(Val(results).pubkey)) = 0
       THEN /\ handleMissingPubkey
            /\ UNCHANGED <<extractedPubkey, extractedParsedRelays>>
       ELSE LET pubkey == Val(Val(results).pubkey)
                extractedPubkeyIsValid == isValidHexPubkey(pubkey)
                parsed == parseRelays(Val(results).relays)
            IN /\ extractedPubkey' = Some(pubkey)
               /\ extractedParsedRelays' = parsed
               /\ IF ~IsNull(previousInfo)
                  THEN handleExistingDomain(pubkey, parsed, extractedPubkeyIsValid)
                  ELSE handleNewDomain(pubkey, parsed, extractedPubkeyIsValid)
  /\ UNCHANGED <<inbox, domainsWithWarnings,
                 store, storageFault, keptOldPubkey, trustedNewPubkey,
                 currentDomain, protocol, previousInfo, badgeText, evals,
                 startStore, fetched, relayRecord, statusRecord, statusStream,
                 fetchCall, storeCall,
                 validateCall, tabBadge,
                 contentPort>>

\* executeScript rejects: handleScriptError
handleScriptError ==
  /\ pc = "extract"
  /\ IF ~IsNull(previousInfo)
     THEN fallbackToSavedPubkey
     ELSE /\ state' = [state EXCEPT !.pubkey = ErrorAccessing, !.isValidPubkey = FALSE]
          /\ pc' = "done"
          /\ UNCHANGED <<pubkeyToCheck, relaysToUse>>
  /\ UNCHANGED <<inbox, domainsWithWarnings,
                 store, storageFault, keptOldPubkey, trustedNewPubkey,
                 currentDomain, protocol, previousInfo, extractedPubkey,
                 extractedParsedRelays, badgeText, evals, startStore, fetched,
                 relayRecord, statusRecord, statusStream, fetchCall, storeCall,
                 validateCall, tabBadge,
                 contentPort>>

\* The saved binding as a version that keeps the saved relays would be.
relayUpdateBindingSavedRelays ==
  [pubkey |-> Val(extractedPubkey), relays |-> Val(previousInfo).relays]

\* the binding saved when the relay-update fetch verifies the domain
relayUpdateBinding ==
  [pubkey |-> Val(extractedPubkey), relays |-> extractedParsedRelays]

\* handleExistingDomain from the relay-update fetch to the checkNip37Events call
relayUpdateFetch ==
  /\ pc = "relayFetch"
  /\ \E msgs \in Deliveries(Val(previousInfo).pubkey), ending \in StreamEnds :
       LET addressingEvent ==
             fetchLatestNip37Event(Val(previousInfo).relays, msgs, ending)
           domainFound == /\ ~IsNull(addressingEvent)
                          /\ DomainFound(Val(addressingEvent), currentDomain, protocol)
       IN /\ store' = IF domainFound
                      THEN saveDomainInfo(store, storageFault, currentDomain,
                                          relayUpdateBinding.pubkey,
                                          relayUpdateBinding.relays)
                      ELSE store
          /\ state' = IF domainFound
                      THEN [state EXCEPT !.relaysUpdated = TRUE]
                      ELSE state
          /\ relayRecord' = <<addressingEvent>>
  /\ fetched' = Append(fetched, <<Val(previousInfo).pubkey, Val(previousInfo).relays>>)
  /\ pubkeyToCheck' = Val(previousInfo).pubkey
  /\ relaysToUse' = Val(previousInfo).relays
  /\ pc' = "statusFetch"
  /\ UNCHANGED <<inbox, domainsWithWarnings,
                 storageFault, keptOldPubkey, trustedNewPubkey,
                 currentDomain, protocol, previousInfo, extractedPubkey,
                 extractedParsedRelays, badgeText, evals, startStore, statusRecord,
                 statusStream, fetchCall, storeCall,
                 validateCall, tabBadge,
                 contentPort>>

\* updateExtensionBadge: the badge text it leaves on the extension icon
updateExtensionBadge(showWarning) == IF showWarning THEN "!" ELSE ""

\* The updater as a version that saves what the page claims whenever the
\* record endorses the page would be.
processNip37EventStoreClaimed(st, prevState, domainFound) ==
  IF domainFound /\ ~IsNull(extractedPubkey)
  THEN saveDomainInfo(st, storageFault, currentDomain,
                      Val(extractedPubkey), extractedParsedRelays)
  ELSE st

\* The updater as a version that saves whatever record was fetched would be.
processNip37EventStoreAnyRecord(st, prevState, domainFound) ==
  IF /\ ~prevState.pubkeyMismatch
     /\ IsNull(getSavedInfoForDomain(st, storageFault, currentDomain))
  THEN saveDomainInfo(st, storageFault, currentDomain, prevState.pubkey, prevState.relays)
  ELSE st

\* The updater as a version that forgets the pubkey mismatch would be.
processNip37EventStoreIgnoringMismatch(st, prevState, domainFound) ==
  IF /\ domainFound
     /\ IsNull(getSavedInfoForDomain(st, storageFault, currentDomain))
  THEN saveDomainInfo(st, storageFault, currentDomain, prevState.pubkey, prevState.relays)
  ELSE st

\* the state updater of processNip37Event: the store it leaves
processNip37EventStore(st, prevState, domainFound) ==
  IF /\ domainFound
     /\ ~prevState.pubkeyMismatch
     /\ IsNull(getSavedInfoForDomain(st, storageFault, currentDomain))
  THEN saveDomainInfo(st, storageFault, currentDomain, prevState.pubkey, prevState.relays)
  ELSE st

\* updateExtensionBadge: the domainMismatch messages on their way to the
\* background script after it
sendDomainMismatch(showWarning, domain) ==
  IF showWarning THEN inbox \cup {domain} ELSE inbox

\* The update as a version that sets the one flag would be.
noEventStateFlagOnly(prevState) ==
  [prevState EXCEPT !.noNip37EventFound = TRUE]

\* the state update of checkNip37Events when the fetch returned nothing
noEventState(prevState) ==
  [prevState EXCEPT !.nip37DomainMismatch = TRUE, !.noNip37EventFound = TRUE]

\* The updater as a version that takes an endorsing record for the end of
\* the pubkey mismatch would be.
processNip37EventStateClears(prevState, domainFound, domains) ==
  [prevState EXCEPT !.nip37DomainMismatch = ~domainFound,
                    !.noNip37EventFound = FALSE,
                    !.nip37Domains = domains,
                    !.pubkeyMismatch = IF domainFound THEN FALSE
                                       ELSE prevState.pubkeyMismatch]

\* what the setState updater of processNip37Event returns
processNip37EventState(prevState, domainFound, domains) ==
  [prevState EXCEPT !.nip37DomainMismatch = ~domainFound,
                    !.noNip37EventFound = FALSE,
                    !.nip37Domains = domains,
                    !.pubkeyMismatch = prevState.pubkeyMismatch]

\* checkNip37Events from its fetch on, processNip37Event included
checkNip37Events ==
  /\ pc = "statusFetch"
  /\ \E msgs \in Deliveries(pubkeyToCheck), ending \in StreamEnds :
       LET addressingEvent == fetchLatestNip37Event(relaysToUse, msgs, ending)
       IN /\ statusRecord' = <<addressingEvent>>
          /\ statusStream' = StreamOf(relaysToUse, msgs, ending)
          /\ IF ~IsNull(addressingEvent)
             THEN LET domainFound ==
                        DomainFound(Val(addressingEvent), currentDomain, protocol)
                      showWarning == ~domainFound \/ state.pubkeyMismatch
                  IN /\ store' = processNip37EventStore(store, state, domainFound)
                     /\ state' = processNip37EventState(
                                    state, domainFound,
                                    Nip37DomainsOf(Val(addressingEvent)))
                     /\ badgeText' = updateExtensionBadge(showWarning)
                     /\ inbox' = sendDomainMismatch(showWarning, currentDomain)
             ELSE /\ state' = noEventState(state)
                  /\ badgeText' = updateExtensionBadge(TRUE)
                  /\ inbox' = sendDomainMismatch(TRUE, currentDomain)
                  /\ store' = store
  /\ fetched' = Append(fetched, <<pubkeyToCheck, relaysToUse>>)
  /\ pc' = "done"
  /\ UNCHANGED <<domainsWithWarnings, storageFault, keptOldPubkey, trustedNewPubkey,
                 currentDomain, protocol, previousInfo, extractedPubkey,
                 extractedParsedRelays, pubkeyToCheck, relaysToUse, evals,
                 startStore, relayRecord, fetchCall, storeCall,
                 validateCall, tabBadge,
                 contentPort>>

(***************************************************************************)
(* components/NostrAddressingInfo.tsx                                      *)
(***************************************************************************)
\* getStatusText: the text of the status chip, rendered whenever the popup is
getStatusText ==
  IF state.nip37DomainMismatch
  THEN IF state.noNip37EventFound THEN "UNVERIFIED" ELSE "REVOKED"
  ELSE "VERIFIED"

\* the two override buttons are rendered
ButtonsShown ==
  /\ pc # "closed"
  /\ state.pubkeyMismatch
  /\ ~keptOldPubkey
  /\ ~trustedNewPubkey

\* The binding as a handler that keeps what the page claims would save it.
keepOldBindingClaimed ==
  [pubkey |-> Val(state.extractedPubkey), relays |-> Val(state.extractedRelays)]

\* the binding handleKeepOldPubkey saves
keepOldBinding == Val(state.savedInfo)

\* The setters as a handler that leaves both choices set would call them.
trustNewChoiceBoth == [keptOldPubkey |-> TRUE, trustedNewPubkey |-> TRUE]

\* setKeptOldPubkey(true); setTrustedNewPubkey(false)
keepOldChoice == [keptOldPubkey |-> TRUE, trustedNewPubkey |-> FALSE]

\* setTrustedNewPubkey(true); setKeptOldPubkey(false)
trustNewChoice == [keptOldPubkey |-> FALSE, trustedNewPubkey |-> TRUE]

\* saveDomainInfo(domain, savedInfo.pubkey, savedInfo.relays): the store it leaves
keepOldStore(st) ==
  saveDomainInfo(st, storageFault, state.domain,
                 keepOldBinding.pubkey, keepOldBinding.relays)

handleKeepOldPubkey ==
  /\ ButtonsShown
  /\ IF ~IsNull(state.savedInfo)
     THEN /\ store' = keepOldStore(store)
          /\ keptOldPubkey' = keepOldChoice.keptOldPubkey
          /\ trustedNewPubkey' = keepOldChoice.trustedNewPubkey
     ELSE UNCHANGED <<store, keptOldPubkey, trustedNewPubkey>>
  /\ UNCHANGED <<inbox, domainsWithWarnings,
                 storageFault, pc, state, currentDomain, protocol,
                 previousInfo, extractedPubkey, extractedParsedRelays,
                 pubkeyToCheck, relaysToUse, badgeText, evals, startStore,
                 fetched, relayRecord, statusRecord, statusStream, fetchCall, storeCall,
                 validateCall, tabBadge,
                 contentPort>>

\* the binding handleTrustNewPubkey saves
trustNewBinding == [pubkey |-> state.pubkey, relays |-> state.relays]

handleTrustNewPubkey ==
  /\ ButtonsShown
  /\ store' = saveDomainInfo(store, storageFault, state.domain,
                             trustNewBinding.pubkey, trustNewBinding.relays)
  /\ trustedNewPubkey' = trustNewChoice.trustedNewPubkey
  /\ keptOldPubkey' = trustNewChoice.keptOldPubkey
  /\ UNCHANGED <<inbox, domainsWithWarnings,
                 storageFault, pc, state, currentDomain, protocol,
                 previousInfo, extractedPubkey, extractedParsedRelays,
                 pubkeyToCheck, relaysToUse, badgeText, evals, startStore,
                 fetched, relayRecord, statusRecord, statusStream, fetchCall, storeCall,
                 validateCall, tabBadge,
                 contentPort>>

(***************************************************************************)
(* The background script.                                                  *)
(***************************************************************************)
\* the onMessage listener receives a domainMismatch message
onMessageDomainMismatch ==
  /\ \E domain \in inbox :
       /\ inbox' = inbox \ {domain}
       /\ domainsWithWarnings' = domainsWithWarnings \cup {domain}
  /\ badgeText' = "!"
  /\ UNCHANGED <<store, storageFault, pc, state, keptOldPubkey, trustedNewPubkey,
                 currentDomain, protocol, previousInfo, extractedPubkey,
                 extractedParsedRelays, pubkeyToCheck, relaysToUse, evals,
                 startStore, fetched, relayRecord, statusRecord, statusStream,
                 fetchCall, storeCall,
                 validateCall, tabBadge,
                 contentPort>>

\* the tabs.onUpdated listener, for a tab that completed loading a page of
\* some domain
tabsOnUpdated ==
  /\ \E domain \in Domains :
       tabBadge' = [domain |-> domain,
                    text |-> IF domain \in domainsWithWarnings THEN "!" ELSE ""]
  /\ UNCHANGED <<popupVars, fetchCall, storeCall, validateCall, contentPort>>

Next ==
  \/ OpenPopup
  \/ handleScriptResults
  \/ handleScriptError
  \/ relayUpdateFetch
  \/ checkNip37Events
  \/ handleKeepOldPubkey
  \/ handleTrustNewPubkey
  \/ onMessageDomainMismatch

Spec == Init /\ [][Next]_vars

\* The popup where every callback and promise that can settle does settle:
\* chrome.scripting.executeScript calls back with a result or an error, and
\* each for-await loop over pool.req ends on EOSE or on an error.
SpecLive ==
  /\ Spec
  /\ WF_vars(handleScriptResults \/ handleScriptError)
  /\ WF_vars(relayUpdateFetch)
  /\ WF_vars(checkNip37Events)

(***************************************************************************)
(* The popup with a localStorage that may fail.  "corrupt": getItem or     *)
(* JSON.parse throws, so the three functions of services/storage.ts take   *)
(* their catch blocks; "quota": setItem throws, so saveDomainInfo takes    *)
(* its catch block and reading works.  A fault begins and ends at any      *)
(* moment; the stored entries are the ones last written successfully.      *)
(***************************************************************************)
StorageFaults == {"none", "corrupt", "quota"}

localStorageFault ==
  /\ \E fault \in StorageFaults \ {storageFault} : storageFault' = fault
  /\ UNCHANGED <<store, pc, state, keptOldPubkey, trustedNewPubkey,
                 currentDomain, protocol, previousInfo, extractedPubkey,
                 extractedParsedRelays, pubkeyToCheck, relaysToUse, badgeText,
                 inbox, domainsWithWarnings, evals, startStore, fetched,
                 relayRecord, statusRecord, statusStream, fetchCall, storeCall,
                 validateCall, tabBadge,
                 contentPort>>

NextFault ==
  \/ Next
  \/ localStorageFault

SpecFault == Init /\ [][NextFault]_vars

\* The popup with the background script's tab listener.
NextBackground ==
  \/ Next
  \/ tabsOnUpdated

SpecBackground == Init /\ [][NextBackground]_vars

(***************************************************************************)
(* contentScript.ts and the background script's onMessage listener: a page *)
(* loads, the content script may send its checkDomain message, and the     *)
(* listener receives it.                                                   *)
(***************************************************************************)
\* document.querySelector('meta[name="nostr-pubkey"]'): no tag, or its content
\* and relays attributes
MetaTags ==
  {Null} \cup {Some([content |-> c, relays |-> r]) : c \in ContentAttrs, r \in RelayAttrs}

\* the DOMContentLoaded listener of a page of some domain and protocol
DOMContentLoaded ==
  /\ \E domain \in Domains, proto \in Protocols, metaTag \in MetaTags :
       IF IsNull(metaTag) \/ IsNull(Val(metaTag).content)
          \/ Len(Val(Val(metaTag).content)) = 0
       THEN contentPort' = [status |-> "none", message |-> Null, response |-> Null]
       ELSE contentPort' =
              [status |-> "sent",
               message |-> Some([action |-> "checkDomain",
                                 data |-> [domain |-> domain,
                                           pubkey |-> Val(Val(metaTag).content),
                                           relays |-> Val(metaTag).relays,
                                           protocol |-> proto]]),
               response |-> Null]
  /\ UNCHANGED <<popupVars, fetchCall, storeCall, validateCall, tabBadge>>

\* the onMessage listener receives the content script's message: its action is
\* not 'domainMismatch', the listener returns false and sendResponse is not
\* called
onMessageCheckDomain ==
  /\ contentPort.status = "sent"
  /\ contentPort' = [contentPort EXCEPT !.status = "handled", !.response = Null]
  /\ UNCHANGED <<popupVars, fetchCall, storeCall, validateCall, tabBadge>>

NextContent ==
  \/ DOMContentLoaded
  \/ onMessageCheckDomain

SpecContent == Init /\ [][NextContent]_vars

(***************************************************************************)
(* services/storage.ts called on its own: saveDomainInfo with any domain,  *)
(* key and relay list, on a localStorage that may fail.                    *)
(***************************************************************************)
\* K2 in lower case: the same key to Nostr, another string to the store
K2Lower == [i \in 1..HexLen |-> IF i = 1 THEN "b" ELSE "0"]

StoreKeys == {K1, K2, K2Lower}

saveDomainInfoCall ==
  /\ \E domain \in Domains, pubkey \in StoreKeys, relays \in RelayLists :
       /\ store' = saveDomainInfo(store, storageFault, domain, pubkey, relays)
       /\ storeCall' = [fn |-> "saveDomainInfo", domain |-> domain,
                        pubkey |-> pubkey, relays |-> relays,
                        result |-> saveDomainInfoOk(storageFault)]
  /\ UNCHANGED <<storageFault, pc, state, keptOldPubkey, trustedNewPubkey,
                 currentDomain, protocol, previousInfo, extractedPubkey,
                 extractedParsedRelays, pubkeyToCheck, relaysToUse, badgeText,
                 inbox, domainsWithWarnings, evals, startStore, fetched,
                 relayRecord, statusRecord, statusStream, fetchCall,
                 validateCall, tabBadge,
                 contentPort>>

NextStore ==
  \/ saveDomainInfoCall
  \/ localStorageFault

SpecStore == Init /\ [][NextStore]_vars

(***************************************************************************)
(* utils/validation.ts called on its own: isValidHexPubkey and parseRelays *)
(* on strings built to reach the edges of the pattern and of the parser.   *)
(***************************************************************************)
MaxPieces == 3

HexLengths == {0, 1, HexLen - 1, HexLen, HexLen + 1, 2 * HexLen}
BaseChars == {"0", "a", "F"}
ProbeChars == {"9", "f", "A", "g", "G", "z", "x", " ", "\n", "-"}

\* strings of one repeated character with one character replaced, at the
\* start or at the end
HexInputs ==
  UNION {{[i \in 1..n |-> IF i = p THEN c ELSE b] :
            p \in {1, n}, b \in BaseChars, c \in ProbeChars} : n \in HexLengths}

isValidHexPubkeyCall ==
  /\ validateCall = NoCall
  /\ \E pubkey \in HexInputs :
       validateCall' = [fn |-> "isValidHexPubkey", input |-> pubkey,
                        result |-> isValidHexPubkey(pubkey)]
  /\ UNCHANGED <<popupVars, fetchCall, storeCall, tabBadge,
                 contentPort>>

\* the pieces a relays attribute is made of, each with what new URL and trim
\* make of it: nothing, or the relay kept
RelayPieces ==
  {[text |-> <<>>, kept |-> Null],
   [text |-> <<" ">>, kept |-> Null],
   [text |-> RelayA, kept |-> Some(RelayA)],
   [text |-> <<" ">> \o RelayB \o <<" ">>, kept |-> Some(RelayB)],
   [text |-> <<"\t">> \o RelayA, kept |-> Some(RelayA)],
   [text |-> <<"b", "a", "d">>, kept |-> Null],
   [text |-> <<"h", "t", "t", "p", ":", "/", "/", "c">>, kept |-> Null],
   [text |-> <<"W", "S", "S", ":", "/", "/", "a">>,
    kept |-> Some(<<"W", "S", "S", ":", "/", "/", "a">>)],
   [text |-> <<"w", "s", "s", ":", "/", "/">>, kept |-> Null],
   [text |-> <<"w", "s", ":", "/", "/", "a", " ", "b">>, kept |-> Null]}

\* pieces.join(',')
RECURSIVE JoinComma(_)
JoinComma(pieces) ==
  IF Len(pieces) = 0 THEN <<>>
  ELSE IF Len(pieces) = 1 THEN pieces[1].text
  ELSE pieces[1].text \o <<",">> \o JoinComma(Tail(pieces))

RelayStrings ==
  UNION {[1..n -> RelayPieces] : n \in 0..MaxPieces}

parseRelaysCall ==
  /\ validateCall = NoCall
  /\ \/ \E pieces \in RelayStrings :
          validateCall' = [fn |-> "parseRelays", input |-> Some(JoinComma(pieces)),
                           pieces |-> pieces,
                           result |-> parseRelays(Some(JoinComma(pieces)))]
     \/ validateCall' = [fn |-> "parseRelays", input |-> Null, pieces |-> <<>>,
                          result |-> parseRelays(Null)]
  /\ UNCHANGED <<popupVars, fetchCall, storeCall, tabBadge,
                 contentPort>>

NextValidate ==
  \/ isValidHexPubkeyCall
  \/ parseRelaysCall

SpecValidate == Init /\ [][NextValidate]_vars

(***************************************************************************)
(* One fetchLatestNip37Event call followed message by message: the 'for    *)
(* await' loop over pool.req, its break on EOSE, its catch block and the   *)
(* reduce after it.                                                        *)
(***************************************************************************)
MaxStream == 4

\* the events the relays may hold for the author: e2 and e3 were issued in
\* the same second
StreamEvents ==
  {[id |-> "e1", pubkey |-> K1, created_at |-> 1, tags |-> TagsAB],
   [id |-> "e2", pubkey |-> K1, created_at |-> 2, tags |-> TagsOther],
   [id |-> "e3", pubkey |-> K1, created_at |-> 2, tags |-> TagsAB],
   [id |-> "e4", pubkey |-> K1, created_at |-> 3, tags |-> <<>>]}

\* the function has been called with some relay list
InitFetch ==
  /\ InitPopup
  /\ \E relays \in RelayLists :
       fetchCall = [IdleCall EXCEPT !.pc = "called", !.relays = relays]
  /\ storeCall = NoCall
  /\ validateCall = NoCall

\* if (relays.length === 0) return undefined
skipFetch ==
  /\ fetchCall.pc = "called"
  /\ Len(fetchCall.relays) = 0
  /\ fetchCall' = [fetchCall EXCEPT !.pc = "returned", !.latestEvent = Null]
  /\ UNCHANGED <<popupVars, storeCall, validateCall, tabBadge,
                 contentPort>>

\* the loop receives an EVENT message
receiveEvent ==
  /\ fetchCall.pc = "called"
  /\ Len(fetchCall.relays) > 0
  /\ Len(fetchCall.delivered) < MaxStream
  /\ \E event \in StreamEvents :
       fetchCall' = [fetchCall EXCEPT
                       !.delivered = Append(@, event),
                       !.events = CollectEvents(<<event>>, @)]
  /\ UNCHANGED <<popupVars, storeCall, validateCall, tabBadge,
                 contentPort>>

\* the loop ends, by the EOSE message or by a thrown error, and the function
\* returns
endOfStream ==
  /\ fetchCall.pc = "called"
  /\ Len(fetchCall.relays) > 0
  /\ \E ending \in StreamEnds :
       fetchCall' = [fetchCall EXCEPT
                       !.pc = "returned",
                       !.ending = ending,
                       !.latestEvent = latestEvent(fetchCall.events)]
  /\ UNCHANGED <<popupVars, storeCall, validateCall, tabBadge,
                 contentPort>>

NextFetch ==
  \/ skipFetch
  \/ receiveEvent
  \/ endOfStream

SpecFetch == InitFetch /\ [][NextFetch]_vars

(***************************************************************************)
(* The vocabulary of the properties, read off the program's state.         *)
(***************************************************************************)
Range(s) == {s[i] : i \in 1..Len(s)}

\* the binding of the observed domain when the evaluation started, and now
StartBinding == getSavedInfoForDomain(startStore, "none", currentDomain)
CurBinding == getSavedInfoForDomain(store, "none", currentDomain)

\* the page has been read and the evaluation has taken its branch
Evaluated == pc \in {"relayFetch", "statusFetch", "done"}

NoOverride == ~keptOldPubkey /\ ~trustedNewPubkey

ClaimedBinding ==
  [pubkey |-> Val(extractedPubkey), relays |-> extractedParsedRelays]

Verdict ==
  IF state.pubkeyMismatch /\ state.isNewDomain THEN "ImpersonationSuspected"
  ELSE IF state.pubkeyMismatch THEN "PubkeyMismatch"
  ELSE IF state.isNewDomain THEN "NewTrusted"
  ELSE IF state.relaysUpdated THEN "RelaysUpdated"
  ELSE "Unchanged"

RecordStatus ==
  IF ~state.nip37DomainMismatch THEN "Verified"
  ELSE IF state.noNip37EventFound THEN "NoRecordFound"
  ELSE "RevokedOrUnendorsed"

\* the fetch returned a record that endorses (currentDomain, protocol)
Endorses(result) ==
  /\ Len(result) = 1
  /\ ~IsNull(result[1])
  /\ DomainFound(Val(result[1]), currentDomain, protocol)

ValidClaim == ~IsNull(extractedPubkey) /\ isValidHexPubkey(Val(extractedPubkey))

\* a domain without a binding claims a valid key no domain is bound to
FirstSeen ==
  /\ Evaluated
  /\ IsNull(StartBinding)
  /\ ValidClaim
  /\ getDomainsForPubkey(startStore, "none", Val(extractedPubkey)) = <<>>

\* a domain with a binding claims a different valid key
KeyChanged ==
  /\ Evaluated
  /\ ~IsNull(StartBinding)
  /\ ValidClaim
  /\ Val(extractedPubkey) # Val(StartBinding).pubkey

\* a domain without a binding claims a key another domain is bound to
KeyOwnedElsewhere ==
  /\ Evaluated
  /\ IsNull(StartBinding)
  /\ ~IsNull(extractedPubkey)
  /\ getDomainsForPubkey(startStore, "none", Val(extractedPubkey)) # <<>>

\* a domain with a binding claims the bound key
SameKey ==
  /\ Evaluated
  /\ ~IsNull(StartBinding)
  /\ ~IsNull(extractedPubkey)
  /\ Val(extractedPubkey) = Val(StartBinding).pubkey

(***************************************************************************)
(* C1: every record lookup of an evaluation uses the key of the binding    *)
(* the domain had when the evaluation started, whatever the page claims,   *)
(* and uses the claimed key only when the domain had no binding.           *)
(***************************************************************************)
AuthoritativeKey(k) ==
  IF ~IsNull(StartBinding)
  THEN k = Val(StartBinding).pubkey
  ELSE ~IsNull(extractedPubkey) /\ k = Val(extractedPubkey)

C1_LookupUsesTrustedKey ==
  /\ \A i \in 1..Len(fetched) : AuthoritativeKey(fetched[i][1])
  /\ pc = "statusFetch" => AuthoritativeKey(pubkeyToCheck)

C1_Witness ==
  /\ pc = "done"
  /\ KeyChanged
  /\ Len(fetched) = 1
  /\ fetched[1][1] = Val(StartBinding).pubkey

(***************************************************************************)
(* C2, as stated: a first observation of a domain with a valid key that no *)
(* domain is bound to ends NewTrusted with the claimed binding stored,     *)
(* whatever the record lookup returned.                                    *)
(***************************************************************************)
C2_StoredWhateverTheLookup ==
  (pc = "done" /\ FirstSeen) =>
     /\ Verdict = "NewTrusted"
     /\ CurBinding = Some(ClaimedBinding)

(***************************************************************************)
(* C2, amended: such an evaluation ends NewTrusted; the claimed binding is *)
(* stored when the lookup returned a record that endorses the domain and   *)
(* protocol, and the store is left as it was for every other outcome.      *)
(***************************************************************************)
C2_StoredWhenEndorsed ==
  (pc = "done" /\ FirstSeen) =>
     /\ Verdict = "NewTrusted"
     /\ IF Endorses(statusRecord)
        THEN CurBinding = Some(ClaimedBinding)
        ELSE store = startStore

C2_Witness ==
  /\ pc = "done"
  /\ FirstSeen
  /\ Endorses(statusRecord)
  /\ CurBinding = Some(ClaimedBinding)

(***************************************************************************)
(* C3: when a bound domain claims a different valid key, the evaluation    *)
(* shows a pubkey mismatch with the previous and the claimed key, and      *)
(* until the user overrides the store keeps the domain's binding, also     *)
(* after the record lookup.                                                *)
(***************************************************************************)
C3_MismatchKeepsIncumbent ==
  (KeyChanged /\ NoOverride) =>
     /\ Verdict = "PubkeyMismatch"
     /\ state.pubkey = Val(StartBinding).pubkey
     /\ state.savedInfo = StartBinding
     /\ state.extractedPubkey = extractedPubkey
     /\ CurBinding = StartBinding

C3_Witness ==
  /\ pc = "done"
  /\ KeyChanged
  /\ NoOverride
  /\ Endorses(statusRecord)

(***************************************************************************)
(* C4: when an unbound domain claims a key that another domain is bound    *)
(* to, the evaluation suspects impersonation, looks the record up with     *)
(* that key and the relays stored for its owner, and without an override   *)
(* stores no binding for the new domain, even when the record endorses it. *)
(***************************************************************************)
OwnerRelays(relays) ==
  \E i \in 1..Len(startStore) :
     /\ startStore[i].domain # currentDomain
     /\ startStore[i].info.pubkey = Val(extractedPubkey)
     /\ startStore[i].info.relays = relays

C4_ImpersonationNotStored ==
  KeyOwnedElsewhere =>
     /\ Verdict = "ImpersonationSuspected"
     /\ pubkeyToCheck = Val(extractedPubkey)
     /\ OwnerRelays(relaysToUse)
     /\ \A i \in 1..Len(fetched) :
          fetched[i][1] = Val(extractedPubkey) /\ OwnerRelays(fetched[i][2])
     /\ NoOverride => IsNull(CurBinding)

C4_Witness ==
  /\ pc = "done"
  /\ KeyOwnedElsewhere
  /\ NoOverride
  /\ Endorses(statusRecord)

(***************************************************************************)
(* C5, as stated: when the claimed key is absent or not valid hex and the  *)
(* domain is bound, the evaluation falls back to the binding: no pubkey    *)
(* mismatch, verdict Unchanged, lookup with the stored key and relays.     *)
(***************************************************************************)
C5_InvalidKeyFallsBack ==
  (Evaluated /\ ~IsNull(StartBinding) /\ ~ValidClaim) =>
     /\ ~state.pubkeyMismatch
     /\ Verdict = "Unchanged"
     /\ pubkeyToCheck = Val(StartBinding).pubkey
     /\ relaysToUse = Val(StartBinding).relays

(***************************************************************************)
(* C6: every stored key and every key passed to the record fetch is a      *)
(* valid 64 character hex key; an evaluation of an unbound domain with an  *)
(* absent or invalid claimed key ends with no identity, no fetch and no    *)
(* store write.                                                            *)
(***************************************************************************)
C6_OnlyValidKeys ==
  /\ \A i \in 1..Len(store) : isValidHexPubkey(store[i].info.pubkey)
  /\ \A i \in 1..Len(fetched) : isValidHexPubkey(fetched[i][1])
  /\ pc = "statusFetch" => isValidHexPubkey(pubkeyToCheck)
  /\ (Evaluated /\ IsNull(StartBinding) /\ ~ValidClaim) =>
        /\ pc = "done"
        /\ ~state.isValidPubkey
        /\ fetched = <<>>
        /\ store = startStore

C6_Witness ==
  /\ pc = "done"
  /\ IsNull(StartBinding)
  /\ ~IsNull(extractedPubkey)
  /\ ~isValidHexPubkey(Val(extractedPubkey))
  /\ Len(Val(extractedPubkey)) = HexLen
  /\ store # <<>>

(***************************************************************************)
(* C7: when a bound domain claims its bound key with a different relay     *)
(* set and the record fetched for the relay update endorses the domain and *)
(* protocol, the evaluation shows RelaysUpdated and the binding holds the  *)
(* claimed relays with the same key.                                       *)
(***************************************************************************)
C7_RelaysUpdatedWhenEndorsed ==
  (/\ SameKey
   /\ Range(extractedParsedRelays) # Range(Val(StartBinding).relays)
   /\ Endorses(relayRecord)) =>
     /\ Verdict = "RelaysUpdated"
     /\ CurBinding = Some([pubkey |-> Val(StartBinding).pubkey,
                           relays |-> extractedParsedRelays])

C7_Witness ==
  /\ pc = "done"
  /\ SameKey
  /\ Range(extractedParsedRelays) # Range(Val(StartBinding).relays)
  /\ Endorses(relayRecord)
  /\ Endorses(statusRecord)
  /\ Val(CurBinding).relays = extractedParsedRelays

(***************************************************************************)
(* C8, as stated: an evaluation that ends with a record status other than  *)
(* Verified and without an override leaves the domain's stored relays as   *)
(* they were when it started.                                              *)
(***************************************************************************)
C8_UnverifiedKeepsRelays ==
  (pc = "done" /\ Len(statusRecord) = 1 /\ RecordStatus # "Verified" /\ NoOverride) =>
     CurBinding = StartBinding

(***************************************************************************)
(* C9, as stated: when a bound domain claims its bound key and the same    *)
(* relay set, the verdict is Unchanged and the store is not written.       *)
(***************************************************************************)
C9_SameSetUntouched ==
  (SameKey /\ Range(extractedParsedRelays) = Range(Val(StartBinding).relays)) =>
     /\ Verdict = "Unchanged"
     /\ store = startStore

(***************************************************************************)
(* C9, amended: when a bound domain claims its bound key and the stored    *)
(* relay list, the same URLs in the same order, the verdict is Unchanged   *)
(* and the store is not written, for every outcome of the lookup.          *)
(***************************************************************************)
C9_SameListUntouched ==
  (SameKey /\ extractedParsedRelays = Val(StartBinding).relays) =>
     /\ Verdict = "Unchanged"
     /\ store = startStore
     /\ relayRecord = <<>>

C9_Witness ==
  /\ pc = "done"
  /\ SameKey
  /\ extractedParsedRelays = Val(StartBinding).relays
  /\ Endorses(statusRecord)

(***************************************************************************)
(* C10, as stated: after the Trust-new override on a pubkey mismatch the   *)
(* store binds the domain to the claimed key and relays, the claimed key   *)
(* is the one in use, and the record has been looked up with it.           *)
(***************************************************************************)
C10_TrustNewStoresClaimed ==
  (trustedNewPubkey /\ KeyChanged) =>
     /\ CurBinding = Some(ClaimedBinding)
     /\ state.pubkey = Val(extractedPubkey)
     /\ pc = "done" => \E i \in 1..Len(fetched) : fetched[i][1] = Val(extractedPubkey)

(***************************************************************************)
(* C11: on a pubkey mismatch of a domain that has a binding, the Keep      *)
(* override writes that binding back: the store after it is the store the  *)
(* evaluation started with, and writing a second time changes nothing.     *)
(***************************************************************************)
MismatchOnBound ==
  /\ Evaluated
  /\ Verdict = "PubkeyMismatch"
  /\ ~IsNull(StartBinding)

C11_KeepIncumbentWritesBack ==
  MismatchOnBound =>
     /\ keepOldBinding = Val(StartBinding)
     /\ keepOldStore(store) = store
     /\ keepOldStore(keepOldStore(store)) = keepOldStore(store)
     /\ keptOldPubkey => store = startStore

C11_Witness ==
  /\ MismatchOnBound
  /\ keptOldPubkey
  /\ pc = "done"
  /\ Endorses(statusRecord)

(***************************************************************************)
(* C12: the two overrides are never both in force: keptOldPubkey and       *)
(* trustedNewPubkey are never both true, and once one is chosen the        *)
(* buttons are gone.                                                       *)
(***************************************************************************)
C12_OverridesExclusive ==
  /\ ~(keptOldPubkey /\ trustedNewPubkey)
  /\ (keptOldPubkey \/ trustedNewPubkey) => ~ButtonsShown

C12_Witness ==
  /\ trustedNewPubkey
  /\ ~keptOldPubkey
  /\ pc = "done"

(***************************************************************************)
(* C13: with no record the record status is NoRecordFound and the list of  *)
(* endorsed domains is empty; with a record the status is Verified exactly *)
(* when the record has an endorsement of the observed domain with the      *)
(* observed protocol, and RevokedOrUnendorsed otherwise.                   *)
(***************************************************************************)
\* the endorsements of a record: the positions of its clearnet tags that name
\* a domain and a protocol
EndorsementsAt(event) ==
  {i \in 1..Len(event.tags) :
     /\ Len(event.tags[i]) >= 3
     /\ event.tags[i][1] = "clearnet"
     /\ event.tags[i][2] # ""
     /\ event.tags[i][3] # ""}

Reconciled == pc = "done" /\ Len(statusRecord) = 1

C13_ReconcileStatus ==
  Reconciled =>
     IF IsNull(statusRecord[1])
     THEN RecordStatus = "NoRecordFound" /\ state.nip37Domains = <<>>
     ELSE LET event == Val(statusRecord[1])
          IN IF \E i \in EndorsementsAt(event) :
                   /\ event.tags[i][2] = currentDomain
                   /\ event.tags[i][3] = protocol
             THEN RecordStatus = "Verified"
             ELSE RecordStatus = "RevokedOrUnendorsed"

\* a record that endorses the domain for https only, observed over http
C13_Witness ==
  /\ Reconciled
  /\ ~IsNull(statusRecord[1])
  /\ Val(statusRecord[1]).id = "e1"
  /\ currentDomain = "a.example"
  /\ protocol = "http"
  /\ RecordStatus = "RevokedOrUnendorsed"

(***************************************************************************)
(* C14, as stated: for a record, the list of endorsed domains holds        *)
(* exactly the record's endorsements for the observed protocol.            *)
(***************************************************************************)
C14_ListOfObservedProtocol ==
  (Reconciled /\ ~IsNull(statusRecord[1])) =>
     LET event == Val(statusRecord[1])
     IN Range(state.nip37Domains) =
          {[domain |-> event.tags[i][2], protocol |-> event.tags[i][3]] :
             i \in {j \in EndorsementsAt(event) : event.tags[j][3] = protocol}}

(***************************************************************************)
(* C14, amended: for a record, the list of endorsed domains holds every    *)
(* endorsement of the record, one entry each, with its own protocol,       *)
(* whatever the observed protocol.                                         *)
(***************************************************************************)
C14_ListOfEveryEndorsement ==
  (Reconciled /\ ~IsNull(statusRecord[1])) =>
     LET event == Val(statusRecord[1])
     IN /\ Range(state.nip37Domains) =
             {[domain |-> event.tags[i][2], protocol |-> event.tags[i][3]] :
                i \in EndorsementsAt(event)}
        /\ Len(state.nip37Domains) = Cardinality(EndorsementsAt(event))

C14_Witness ==
  /\ Reconciled
  /\ ~IsNull(statusRecord[1])
  /\ protocol = "https"
  /\ \E i \in 1..Len(state.nip37Domains) : state.nip37Domains[i].protocol = "http"

(***************************************************************************)
(* C15, as stated: when an evaluation has reconciled the record, the alert *)
(* is raised exactly when a pubkey mismatch or impersonation stands        *)
(* without an override or the record status is not Verified, and is        *)
(* cleared in every other case.  Stated for the badge as the popup left it, *)
(* before the background script has handled any message.                   *)
(***************************************************************************)
AlertRaised == badgeText = "!"

C15_AlertFollowsVerdict ==
  (Reconciled /\ domainsWithWarnings = {}) =>
     (AlertRaised <=> \/ state.pubkeyMismatch /\ NoOverride
                      \/ RecordStatus # "Verified")

(***************************************************************************)
(* C16: the flags of the state encode one verdict and one record status:   *)
(* relaysUpdated is never set together with pubkeyMismatch or isNewDomain, *)
(* noNip37EventFound is never set without nip37DomainMismatch, and an      *)
(* evaluation that has reconciled the record carries the verdict of the    *)
(* case it observed.                                                       *)
(***************************************************************************)
ObservedCase ==
  IF IsNull(StartBinding)
  THEN IF KeyOwnedElsewhere THEN "ImpersonationSuspected" ELSE "NewTrusted"
  ELSE IF IsNull(extractedPubkey) THEN "Unchanged"
  ELSE IF Val(extractedPubkey) # Val(StartBinding).pubkey THEN "PubkeyMismatch"
  ELSE IF Endorses(relayRecord) THEN "RelaysUpdated"
  ELSE "Unchanged"

C16_OneVerdictOneStatus ==
  /\ state.noNip37EventFound => state.nip37DomainMismatch
  /\ state.relaysUpdated => ~state.pubkeyMismatch /\ ~state.isNewDomain
  /\ Reconciled =>
        /\ Verdict = ObservedCase
        /\ RecordStatus = "NoRecordFound" <=> IsNull(statusRecord[1])

C16_Witness ==
  /\ Reconciled
  /\ Verdict = "RelaysUpdated"
  /\ RecordStatus = "NoRecordFound"

(***************************************************************************)
(* C17, as stated: when the status fetch raised an error or received no    *)
(* event, the record status is NoRecordFound, also when the error came     *)
(* after some events.                                                      *)
(***************************************************************************)
C17_ErrorMeansNoRecord ==
  (Reconciled /\ (statusStream.error \/ ~statusStream.received)) =>
     RecordStatus = "NoRecordFound"

(***************************************************************************)
(* C17, amended: when the status fetch has received no event, whether its  *)
(* stream ended or raised an error, the record status is NoRecordFound;    *)
(* when it has received events, it reconciles the latest of them, an error *)
(* after them notwithstanding.  The fetch is made once.                    *)
(***************************************************************************)
C17_NoEventMeansNoRecord ==
  Reconciled =>
     /\ IF statusStream.received
        THEN ~IsNull(statusRecord[1]) /\ RecordStatus # "NoRecordFound"
        ELSE IsNull(statusRecord[1]) /\ RecordStatus = "NoRecordFound"
     /\ Len(fetched) = Len(relayRecord) + 1

C17_Witness ==
  /\ Reconciled
  /\ statusStream.error
  /\ statusStream.received
  /\ RecordStatus = "Verified"

(***************************************************************************)
(* C18: whatever events are delivered before the stream ends, the fetch    *)
(* keeps one copy of each event id, and what it returns is the first       *)
(* delivered of the events with the greatest created_at.                   *)
(***************************************************************************)
C18_LatestFirstDelivered ==
  LET delivered == fetchCall.delivered
      events == fetchCall.events
  IN /\ \A i, j \in 1..Len(events) : events[i].id = events[j].id => i = j
     /\ {events[i].id : i \in 1..Len(events)} =
          {delivered[i].id : i \in 1..Len(delivered)}
     /\ (fetchCall.pc = "returned" /\ Len(delivered) > 0) =>
           /\ ~IsNull(fetchCall.latestEvent)
           /\ \A i \in 1..Len(delivered) :
                 Val(fetchCall.latestEvent).created_at >= delivered[i].created_at
           /\ \E i \in 1..Len(delivered) :
                 /\ delivered[i] = Val(fetchCall.latestEvent)
                 /\ \A j \in 1..(i - 1) :
                       delivered[j].created_at < delivered[i].created_at

\* two events of the same second and a repeated one
C18_Witness ==
  /\ fetchCall.pc = "returned"
  /\ Len(fetchCall.delivered) > Len(fetchCall.events)
  /\ Val(fetchCall.latestEvent).id = "e3"
  /\ \E i \in 1..Len(fetchCall.delivered) : fetchCall.delivered[i].id = "e2"

(***************************************************************************)
(* C19, as stated: when the read of the store fails, so that a domain that *)
(* has a binding is read as having none, the evaluation does not treat the *)
(* domain as first seen, does not show its claimed key as NewTrusted and   *)
(* writes nothing.                                                         *)
(***************************************************************************)
ReadFailed == IsNull(previousInfo) /\ ~IsNull(StartBinding)

C19_ReadFailureRefuses ==
  (Evaluated /\ ReadFailed) =>
     /\ ~state.isNewDomain
     /\ Verdict # "NewTrusted"
     /\ store = startStore

(***************************************************************************)
(* C20, as stated: an override or a relay update is reported only when its *)
(* write reached the store: keptOldPubkey, trustedNewPubkey and            *)
(* relaysUpdated are set only with the written binding stored.             *)
(***************************************************************************)
C20_FailedWriteNotReported ==
  /\ keptOldPubkey => CurBinding = Some(keepOldBinding)
  /\ trustedNewPubkey => CurBinding = Some(trustNewBinding)
  /\ state.relaysUpdated => CurBinding = Some(relayUpdateBinding)

(***************************************************************************)
(* C21: no step removes a binding; a write for a domain leaves that domain *)
(* bound to exactly the key and relays written and every other domain's    *)
(* binding as it was; a write that fails returns false and leaves the      *)
(* store as it was.                                                        *)
(***************************************************************************)
BindingOf(st, domain) == getSavedInfoForDomain(st, "none", domain)

C21_WriteReplacesOneBinding ==
  [][/\ \A domain \in Domains :
          ~IsNull(BindingOf(store, domain)) => ~IsNull(BindingOf(store', domain))
     /\ storeCall' # storeCall =>
          IF storeCall'.result
          THEN /\ BindingOf(store', storeCall'.domain) =
                    Some([pubkey |-> storeCall'.pubkey, relays |-> storeCall'.relays])
               /\ \A domain \in Domains \ {storeCall'.domain} :
                    BindingOf(store', domain) = BindingOf(store, domain)
          ELSE store' = store
     /\ storageFault # "none" => store' = store]_vars

\* a refused write on a store of two bindings
C21_Witness ==
  /\ Len(store) = 2
  /\ storeCall.fn = "saveDomainInfo"
  /\ ~storeCall.result
  /\ store[1].info.relays = <<RelayA, RelayB>>

(***************************************************************************)
(* C22: after a write that returned true, reading the domain gives the key *)
(* and relays written and the scan for the key finds the domain; the scan  *)
(* for a key gives, once each, the domains whose stored key is that very   *)
(* string.                                                                 *)
(***************************************************************************)
ScanDomains(pubkey) ==
  LET found == getDomainsForPubkey(store, storageFault, pubkey)
  IN {found[i].domain : i \in 1..Len(found)}

C22_ReadYourWrites ==
  storageFault # "corrupt" =>
     /\ (storeCall.fn = "saveDomainInfo" /\ storeCall.result) =>
           /\ getSavedInfoForDomain(store, storageFault, storeCall.domain) =
                 Some([pubkey |-> storeCall.pubkey, relays |-> storeCall.relays])
           /\ storeCall.domain \in ScanDomains(storeCall.pubkey)
     /\ \A pubkey \in StoreKeys :
           /\ ScanDomains(pubkey) =
                 {store[i].domain : i \in {j \in 1..Len(store) : store[j].info.pubkey = pubkey}}
           /\ Len(getDomainsForPubkey(store, storageFault, pubkey)) =
                 Cardinality(ScanDomains(pubkey))

\* two domains bound to one key, a third key differing from it in case only
C22_Witness ==
  /\ storeCall.fn = "saveDomainInfo"
  /\ storeCall.result
  /\ storeCall.pubkey = K2Lower
  /\ Len(store) = 2
  /\ store[1].info.pubkey = K2
  /\ ScanDomains(K2) = {store[1].domain}

(***************************************************************************)
(* C23: isValidHexPubkey answers true exactly for the strings of 64        *)
(* characters that are all digits or letters a to f of either case.        *)
(***************************************************************************)
Digits == {"0", "1", "2", "3", "4", "5", "6", "7", "8", "9"}
LowerAF == {"a", "b", "c", "d", "e", "f"}
UpperAF == {"A", "B", "C", "D", "E", "F"}

C23_HexKeyExactly ==
  validateCall.fn = "isValidHexPubkey" =>
     (validateCall.result <=>
        /\ Len(validateCall.input) = 64
        /\ \A i \in 1..Len(validateCall.input) :
              validateCall.input[i] \in Digits \cup LowerAF \cup UpperAF)

\* a key of both cases accepted
C23_Witness ==
  /\ validateCall.fn = "isValidHexPubkey"
  /\ validateCall.result
  /\ validateCall.input[1] = "a"
  /\ validateCall.input[64] = "A"

(***************************************************************************)
(* C24: parseRelays gives, in the order of the string and with repeats     *)
(* kept, the trimmed comma-separated entries that are non-empty ws or wss  *)
(* URLs; an empty or absent string gives the empty list.                   *)
(***************************************************************************)
RECURSIVE KeptOf(_)
KeptOf(pieces) ==
  IF Len(pieces) = 0 THEN <<>>
  ELSE pieces[1].kept \o KeptOf(Tail(pieces))

C24_RelaysInOrder ==
  validateCall.fn = "parseRelays" =>
     /\ validateCall.result = KeptOf(validateCall.pieces)
     /\ (IsNull(validateCall.input) \/ Len(Val(validateCall.input)) = 0) =>
           validateCall.result = <<>>
     /\ \A i \in 1..Len(validateCall.result) :
           /\ Len(validateCall.result[i]) > 0
           /\ Trim(validateCall.result[i]) = validateCall.result[i]
           /\ isValidRelayUrl(validateCall.result[i])

\* a relay listed twice around another, with blanks to trim
C24_Witness ==
  /\ validateCall.fn = "parseRelays"
  /\ Len(validateCall.pieces) = 3
  /\ validateCall.result = <<RelayA, RelayB, RelayA>>
  /\ validateCall.pieces[2].text # RelayB

(***************************************************************************)
(* C25, as stated: when the claimed key is the stored key, a relay change  *)
(* is detected, that is the relay-update fetch is made, exactly when the   *)
(* claimed relays differ from the stored relays as a set.                  *)
(***************************************************************************)
RelayChangeDetected == pc = "relayFetch" \/ Len(relayRecord) = 1

C25_ChangeIffSetsDiffer ==
  SameKey =>
     (RelayChangeDetected <=>
        Range(extractedParsedRelays) # Range(Val(StartBinding).relays))

(***************************************************************************)
(* C25, amended: when the claimed key is the stored key, a relay change is *)
(* detected exactly when the claimed relay list differs from the stored    *)
(* list as a list, so that a reordering of the stored list is a change.    *)
(***************************************************************************)
C25_ChangeIffListsDiffer ==
  SameKey =>
     (RelayChangeDetected <=> extractedParsedRelays # Val(StartBinding).relays)

\* the stored relays claimed in another order, fetched for and written
C25_Witness ==
  /\ pc = "done"
  /\ SameKey
  /\ Range(extractedParsedRelays) = Range(Val(StartBinding).relays)
  /\ extractedParsedRelays # Val(StartBinding).relays
  /\ Len(relayRecord) = 1
  /\ Verdict = "RelaysUpdated"
  /\ CurBinding # StartBinding

(***************************************************************************)
(* C26: every evaluation that is started reaches a terminal state, where   *)
(* nothing of it is pending, provided the page script calls back and each  *)
(* fetch stream ends or raises an error; only opening the popup again,     *)
(* which starts the next evaluation, takes its place.                      *)
(***************************************************************************)
C26_EvaluationTerminates ==
  \A n \in 1..MaxEvals :
     (evals = n /\ pc \in {"extract", "relayFetch", "statusFetch"}) ~>
        ((evals = n /\ pc = "done") \/ evals > n)

\* an evaluation that made both fetches, the second ending on an error
C26_Witness ==
  /\ pc = "done"
  /\ Len(relayRecord) = 1
  /\ Len(statusRecord) = 1
  /\ statusStream.error

(***************************************************************************)
(* C27: a fetch that collected no event returns none, however its stream   *)
(* ended; a fetch given no relay returns none without opening a stream;    *)
(* and whatever a fetch returns is one of the events it collected.         *)
(***************************************************************************)
C27_NoneWhenNothingCollected ==
  fetchCall.pc = "returned" =>
     /\ Len(fetchCall.events) = 0 => IsNull(fetchCall.latestEvent)
     /\ Len(fetchCall.relays) = 0 =>
           /\ fetchCall.delivered = <<>>
           /\ fetchCall.ending = ""
           /\ IsNull(fetchCall.latestEvent)
     /\ ~IsNull(fetchCall.latestEvent) =>
           \E i \in 1..Len(fetchCall.events) :
              fetchCall.events[i] = Val(fetchCall.latestEvent)

\* relays were asked, the stream broke before any event, none is returned
C27_Witness ==
  /\ fetchCall.pc = "returned"
  /\ Len(fetchCall.relays) > 0
  /\ fetchCall.ending = "error"
  /\ Len(fetchCall.events) = 0
  /\ IsNull(fetchCall.latestEvent)

(***************************************************************************)
(* C28: the step that processes what a fetch returned, a record or none,   *)
(* leaves the pubkey-mismatch flag, the displayed key, the displayed       *)
(* relays and the new-domain flag as they were.                            *)
(***************************************************************************)
C28_RecordKeepsMismatch ==
  [][((pc = "statusFetch" /\ pc' = "done") \/ (pc = "relayFetch" /\ pc' = "statusFetch")) =>
        /\ state'.pubkeyMismatch = state.pubkeyMismatch
        /\ state'.pubkey = state.pubkey
        /\ state'.relays = state.relays
        /\ state'.isNewDomain = state.isNewDomain]_vars

\* a pubkey mismatch still flagged after a record that endorses the page
C28_Witness ==
  /\ pc = "done"
  /\ state.pubkeyMismatch
  /\ Endorses(statusRecord)
  /\ NoOverride

(***************************************************************************)
(* C29, as stated: whenever the popup shows the status VERIFIED, a record  *)
(* fetched in this evaluation endorses the page's domain and protocol; so  *)
(* the status is not VERIFIED before the lookup has completed nor when no  *)
(* identity was found.                                                     *)
(***************************************************************************)
C29_VerifiedOnlyWhenEndorsed ==
  (pc # "closed" /\ getStatusText = "VERIFIED") => Endorses(statusRecord)

(***************************************************************************)
(* C30, as stated: while no override is chosen, the store differs from     *)
(* what it was when the evaluation started only if a record fetched in the *)
(* evaluation endorses the page, and an evaluation whose lookup ended with *)
(* no record or with a record that does not endorse the page has left the  *)
(* whole store as it was.                                                  *)
(***************************************************************************)
C30_WritesOnlyWhenEndorsed ==
  NoOverride =>
     /\ store # startStore => (Endorses(relayRecord) \/ Endorses(statusRecord))
     /\ (Reconciled /\ RecordStatus \in {"NoRecordFound", "RevokedOrUnendorsed"}) =>
           store = startStore

(***************************************************************************)
(* C31, as stated: no key is the key of two bindings of the store, and so  *)
(* no override chosen in the ImpersonationSuspected state has bound the    *)
(* new domain to the key another domain is bound to.                       *)
(***************************************************************************)
C31_KeyBoundOnce ==
  \A i, j \in 1..Len(store) :
     store[i].info.pubkey = store[j].info.pubkey => i = j

(***************************************************************************)
(* C32, as stated: every binding of the store has at least one relay, so   *)
(* the record of a bound domain can be asked for on a later evaluation.    *)
(***************************************************************************)
C32_StoredRelaysNonEmpty ==
  \A i \in 1..Len(store) : Len(store[i].info.relays) > 0

(***************************************************************************)
(* C33, as stated: when a tab finishes loading, its badge is the warning   *)
(* exactly when the page's domain is in the set of domains with warnings;  *)
(* a domain enters the set only by a domainMismatch message sent for it;   *)
(* and a tab that loads a domain whose latest evaluation ended Verified    *)
(* with no pubkey mismatch, no message for it pending, gets no warning.    *)
(***************************************************************************)
VerifiedAgain(domain) ==
  /\ Reconciled
  /\ currentDomain = domain
  /\ RecordStatus = "Verified"
  /\ ~state.pubkeyMismatch
  /\ domain \notin inbox

C33_BadgeFollowsWarnings ==
  [][/\ tabBadge' # tabBadge =>
          (tabBadge'.text = "!" <=> tabBadge'.domain \in domainsWithWarnings)
     /\ (domainsWithWarnings' \ domainsWithWarnings) \subseteq inbox
     /\ (tabBadge' # tabBadge /\ VerifiedAgain(tabBadge'.domain)) =>
          tabBadge'.text = ""]_vars

(***************************************************************************)
(* C34: an override chosen while a record fetch of the evaluation is still *)
(* awaited is final: the step that completes the fetch, whatever the fetch *)
(* returned, leaves the store as the override left it, the domain bound to *)
(* what the override wrote.                                                *)
(***************************************************************************)
C34_OverrideIsFinal ==
  [][(/\ pc \in {"relayFetch", "statusFetch"}
      /\ pc' \in {"statusFetch", "done"}
      /\ pc' # pc
      /\ ~NoOverride) =>
        /\ store' = store
        /\ CurBinding' =
             Some(IF keptOldPubkey THEN keepOldBinding ELSE trustNewBinding)]_vars

\* the fetch is awaited, Keep has been chosen and has written the store; the
\* step that completes the fetch is the next one of the evaluation
C34_Witness ==
  /\ pc = "statusFetch"
  /\ keptOldPubkey
  /\ Verdict = "ImpersonationSuspected"
  /\ store # startStore

(***************************************************************************)
(* C35, as stated: a checkDomain message that the background script has    *)
(* handled was processed there and got a response.                         *)
(***************************************************************************)
C35_CheckDomainAnswered ==
  contentPort.status = "handled" => ~IsNull(contentPort.response)
====
